---- MODULE Spec2Model ----
(***************************************************************************)
(* Donation / claim lifecycle of the FoodShare backend.                    *)
(*                                                                         *)
(* The row store holds two tables that the lifecycle handlers mutate:      *)
(*   food_donations  (donor_id, status, final_state, expiry_date, quantity)*)
(*   ngo_claims      (donation_id, ngo_id, status, claimed_at)             *)
(* and the ids of the accounts in the users table.  The lifecycle handlers *)
(* delete no row, so a table is a sequence and a row's id is its index.    *)
(*                                                                         *)
(* The specifications share the state:                                     *)
(*   Spec       every handler runs to completion as one step;              *)
(*   SpecRace   every handler is a request whose row-store calls are       *)
(*              separate steps that interleave with other requests;        *)
(*   SpecSweep  run to completion, but for a pickup between its writes;    *)
(*   SpecTimer  no request to the sweep endpoints, the in-process timer;   *)
(*   SpecAdmin  run to completion, with the deletion of accounts;          *)
(*   SpecFault  run to completion, but a call of a handler may raise;      *)
(*   SpecRetry  list_donations, whose query is retried, one execution a    *)
(*              step.                                                      *)
(*                                                                         *)
(* Time is the wall clock in hours; a calendar date is a day number.       *)
(* Columns that no handler reads to take a decision (title, updated_at,    *)
(* cancelled_at, completed_at, qr_code, ...) are not part of the state.    *)
(***************************************************************************)
EXTENDS Integers, Sequences, FiniteSets, Bags, TLC

VARIABLES donations, claims, now, resp, reqs, users

vars == <<donations, claims, now, resp, reqs, users>>

\* ---------------------------------------------------------------- bounds
MaxDonations == 1
MaxClaims == 2
MaxDays == 2
MaxInFlight == 2

\* ------------------------------------------------------------- constants
HoursPerDay == 24
StaleHours == 24

\* _execute_with_retry: the default number of retries
Retries == 2

\* the granularity at which the wall clock is observed
TickHours == HoursPerDay
MaxNow == MaxDays * HoursPerDay

NULL == "null"

\* date.today() / datetime.utcnow().date() at wall-clock time t
today_of(t) == t \div HoursPerDay

today == today_of(now)

\* request inputs: a quantity is a JSON number, counted in halves (0, 1 and
\* 1.5); an expiry_date of today (fails validation) and of tomorrow (passes)
Quantities == {0, 2, 3}
ExpiryOffsets == {0, 1}
ExpiryInputs == {today_of(now) + k : k \in ExpiryOffsets}
NGOs == {"ngoA", "ngoB"}
NoNgo == "none"

\* the accounts: one donor, the NGOs and one administrator
Donor == "donor"
Admin == "admin"
Accounts == {Donor, Admin} \cup NGOs

\* users.role of an account
role(u) == IF u = Admin THEN "admin" ELSE IF u \in NGOs THEN "ngo" ELSE "donor"

Statuses == {"available", "claimed", "completed"}
FinalStates == {NULL, "expired", "cancelled_by_donor", "cancelled_by_ngo"}
ClaimStatuses == {"claimed", "completed", "cancelled"}

DonationIds == 1..Len(donations)
ClaimIds == 1..Len(claims)


\* resp is the answer a handler has just returned and that is on its way to
\* the caller: the handler, its arguments, the HTTP status and, where two
\* answers share a status, the heading of the page; count is the number of
\* rows a sweep reports to have handled, notes the number of rows the handler
\* has inserted into the notifications table on its way to the answer
Reply(op, d, n, code, text) ==
    [op |-> op, id |-> d, ngo |-> n, code |-> code, text |-> text, count |-> 0,
     notes |-> 0]

Response(op, d, n, code) == Reply(op, d, n, code, "")

\* the answer of a sweep: "<count> donations marked as expired", ...
SweepReply(op, count) == [Response(op, 0, NoNgo, 200) EXCEPT !.count = count]

\* the answer of a handler that has inserted k notifications
Notify(reply, k) == [reply EXCEPT !.notes = k]

NoReply == Response("none", 0, NoNgo, 0)

\* no answer is on its way: the next step may be taken
Ready == resp = NoReply

AlreadyConfirmed == "Pickup Already Confirmed"
Confirmed == "Pickup Confirmed!"

\* an in-flight request: the handler, its position, and its local variables
\* (attempt is the loop variable of _execute_with_retry)
Req(op, pc, d, n, todo, c, q, e) ==
    [op |-> op, pc |-> pc, id |-> d, ngo |-> n, todo |-> todo, claim |-> c,
     quantity |-> q, expiry_date |-> e, attempt |-> 0]

\* ids of the rows of a table that satisfy Test, in row order
RowsWhere(table, Test(_)) ==
    SelectSeq([i \in 1..Len(table) |-> i], LAMBDA i : Test(table[i]))

\* int(value) of a JSON number counted in halves: truncation towards zero
int(value) == IF value >= 0 THEN value \div 2 ELSE -((-value) \div 2)

\* ================================================================ guards
\* add_donation: quantity and expiry_date validation
add_guard(quantity, expiry_date, tday) ==
    IF quantity = 0 THEN 400
    ELSE IF int(quantity) <= 0 THEN 400
    ELSE IF expiry_date <= tday THEN 400
    ELSE 201

\* update_donation: finalized / completed donations are not editable,
\* then the edited fields are validated
update_guard(don, quantity, expiry_date, tday) ==
    IF don.final_state # NULL THEN 400
    ELSE IF don.status = "completed" THEN 400
    ELSE IF int(quantity) <= 0 THEN 400
    ELSE IF expiry_date <= tday THEN 400
    ELSE 200

\* cancel_donation without the completed check
cancel_guard_completed_ok(don) ==
    IF don.final_state = "cancelled_by_donor" THEN 400
    ELSE 200

\* cancel_donation: completed is immutable, donor double-cancel is blocked
cancel_guard(don) ==
    IF don.status = "completed" THEN 400
    ELSE IF don.final_state = "cancelled_by_donor" THEN 400
    ELSE 200

\* claim_donation without the final_state lock
claim_guard_unlocked(don, tday) ==
    IF don.status # "available" THEN 409
    ELSE IF don.expiry_date < tday THEN 409
    ELSE 200

\* claim_donation rejecting a donation that expires today
claim_guard_expiry_today(don, tday) ==
    IF don.final_state # NULL THEN 409
    ELSE IF don.status # "available" THEN 409
    ELSE IF don.expiry_date <= tday THEN 409
    ELSE 200

\* claim_donation: finalized, not available, expired by date
claim_guard(don, tday) ==
    IF don.final_state # NULL THEN 409
    ELSE IF don.status # "available" THEN 409
    ELSE IF don.expiry_date < tday THEN 409
    ELSE 200

\* confirm_pickup: the early returns (200 = already confirmed); 0 = none, the
\* confirmation proceeds
pickup_guard(don) ==
    IF don.final_state # NULL THEN 400
    ELSE IF don.status = "completed" THEN 200
    ELSE IF don.status # "claimed" THEN 400
    ELSE 0

\* confirm_pickup: the page answered for an outcome of the guard
pickup_reply(d, code) ==
    IF code = 0 THEN Notify(Reply("confirm_pickup", d, NoNgo, 200, Confirmed), 1)
    ELSE IF code = 200 THEN Reply("confirm_pickup", d, NoNgo, 200, AlreadyConfirmed)
    ELSE Response("confirm_pickup", d, NoNgo, code)

\* ======================================================= row-store calls
\* add_donation: the inserted row
add_insert(dons, quantity, expiry_date) ==
    Append(dons, [donor_id |-> Donor, status |-> "available", final_state |-> NULL,
                  expiry_date |-> expiry_date, quantity |-> int(quantity)])

\* update_donation: the request body; next to the edited fields the caller
\* sends a status and a final_state
update_body(quantity, expiry_date) ==
    [quantity |-> quantity, expiry_date |-> expiry_date,
     status |-> "available", final_state |-> NULL]

\* update_donation taking status and final_state from the body as well
allowed_fields_with_status == {"quantity", "expiry_date", "status", "final_state"}

\* update_donation: the editable fields (those that are columns of the model)
allowed_fields == {"quantity", "expiry_date"}

\* update_donation: the validated values of the editable fields of the body
update_data(data) ==
    [f \in DOMAIN data \cap allowed_fields |->
        IF f = "quantity" THEN int(data[f]) ELSE data[f]]

\* update_donation: the update of the edited fields
update_write(dons, d, data) ==
    [dons EXCEPT ![d] = [f \in DOMAIN @ |-> IF f \in DOMAIN data THEN data[f] ELSE @[f]]]

\* cancel_donation leaving the claim rows as they are
cancel_claims_write_none(cls, d) == cls

\* cancel_donation: cancel any active claim of the donation
cancel_claims_write(cls, d) ==
    [c \in 1..Len(cls) |->
        IF cls[c].donation_id = d /\ cls[c].status = "claimed"
        THEN [cls[c] EXCEPT !.status = "cancelled"]
        ELSE cls[c]]

\* cancel_donation stamping final_state only
cancel_donation_write_keep_status(dons, d) ==
    [dons EXCEPT ![d].final_state = "cancelled_by_donor"]

\* cancel_donation: apply the donor cancellation
cancel_donation_write(dons, d) ==
    [dons EXCEPT ![d].status = "available", ![d].final_state = "cancelled_by_donor"]

\* claim_donation: insert of the claim row
claim_insert(cls, d, n, t) ==
    Append(cls, [donation_id |-> d, ngo_id |-> n, status |-> "claimed", claimed_at |-> t])

\* claim_donation: update of the donation snapshot
claim_donation_write(dons, d) ==
    [dons EXCEPT ![d].status = "claimed"]

\* confirm_pickup: mark the donation completed
pickup_donation_write(dons, d) ==
    [dons EXCEPT ![d].status = "completed"]

\* confirm_pickup completing every claim row of the donation
pickup_claims_write_all(cls, d) ==
    [c \in 1..Len(cls) |->
        IF cls[c].donation_id = d
        THEN [cls[c] EXCEPT !.status = "completed"]
        ELSE cls[c]]

\* confirm_pickup: mark the active claim(s) of the donation completed
pickup_claims_write(cls, d) ==
    [c \in 1..Len(cls) |->
        IF cls[c].donation_id = d /\ cls[c].status = "claimed"
        THEN [cls[c] EXCEPT !.status = "completed"]
        ELSE cls[c]]

\* auto_expire_donations selecting only donations past their expiry date
expire_candidates_before_today(dons, tday) ==
    RowsWhere(dons, LAMBDA r : /\ r.expiry_date < tday
                               /\ r.final_state = NULL
                               /\ r.status # "completed")

\* auto_expire_donations: the candidate query
expire_candidates(dons, tday) ==
    RowsWhere(dons, LAMBDA r : /\ r.expiry_date <= tday
                               /\ r.final_state = NULL
                               /\ r.status # "completed")

\* auto_expire_donations: the per-row update
expire_write(dons, d) ==
    [dons EXCEPT ![d].final_state = "expired"]

\* send_expiry_reminders reminding of unfinalized donations only
reminder_candidates_unfinalized(dons, tday) ==
    RowsWhere(dons, LAMBDA r : /\ r.expiry_date >= tday /\ r.expiry_date <= tday + 1
                               /\ r.final_state = NULL)

\* send_expiry_reminders: the candidate query
reminder_candidates(dons, tday) ==
    RowsWhere(dons, LAMBDA r : r.expiry_date >= tday /\ r.expiry_date <= tday + 1)

\* auto_cancel_claimed_donations: the candidate query
stale_candidates(cls, t) ==
    RowsWhere(cls, LAMBDA r : r.status = "claimed" /\ r.claimed_at <= t - StaleHours)

\* auto_cancel_claimed_donations skipping no candidate
stale_skip_never(don) == FALSE

\* auto_cancel_claimed_donations: per-row guard on the donation just read
stale_skip(don) == don.status = "completed"

\* auto_cancel_claimed_donations / ngo_cancel_claim: cancel the claim by id
claim_cancel_write(cls, c) ==
    [cls EXCEPT ![c].status = "cancelled"]

\* auto_cancel_claimed_donations marking the donation expired
stale_donation_write_expired(dons, d) ==
    [dons EXCEPT ![d].status = "available", ![d].final_state = "expired"]

\* auto_cancel_claimed_donations: restore the donation
stale_donation_write(dons, d) ==
    [dons EXCEPT ![d].status = "available", ![d].final_state = NULL]

\* ngo_cancel_claim looking up the claimed rows of the donation, of any NGO
ngo_claim_rows_any_ngo(cls, d, n) ==
    RowsWhere(cls, LAMBDA r : r.donation_id = d /\ r.status = "claimed")

\* ngo_cancel_claim: the claimed rows of this NGO on this donation
ngo_claim_rows(cls, d, n) ==
    RowsWhere(cls, LAMBDA r : r.donation_id = d /\ r.ngo_id = n /\ r.status = "claimed")

\* ngo_cancel_claim: maybe_single() on the claimed rows: none is 404, one
\* proceeds, several make the row store raise and the handler answer 500
ngo_guard(rows) ==
    IF rows = <<>> THEN 404 ELSE IF Len(rows) > 1 THEN 500 ELSE 200

\* ngo_cancel_claim: restore the donation
ngo_donation_write(dons, d) ==
    [dons EXCEPT ![d].status = "available", ![d].final_state = "cancelled_by_ngo"]

\* delete_user_admin: .single() on a missing account makes the row store
\* raise (500); administrators are not deleted
delete_user_admin_guard(user_id, usrs) ==
    IF user_id \notin usrs THEN 500
    ELSE IF role(user_id) = "admin" THEN 403
    ELSE 200

\* delete_account: the account must exist
delete_account_guard(user_id, usrs) ==
    IF user_id \notin usrs THEN 404 ELSE 200

\* delete_user_admin / delete_account: anonymise the donations of the account
anonymise_write(dons, user_id) ==
    [d \in 1..Len(dons) |->
        IF dons[d].donor_id = user_id
        THEN [dons[d] EXCEPT !.donor_id = NULL]
        ELSE dons[d]]

\* delete_user_admin: delete the claim rows of the account
claims_delete(cls, user_id) ==
    SelectSeq(cls, LAMBDA r : r.ngo_id # user_id)

\* ================================================================== Init
Init ==
    /\ donations = <<>>
    /\ claims = <<>>
    /\ now = 0
    /\ resp = NoReply
    /\ reqs = EmptyBag
    /\ users = Accounts

\* the wall clock advances
Tick(hours) ==
    /\ Ready
    /\ now + hours <= MaxNow
    /\ now' = now + hours
    /\ UNCHANGED <<donations, claims, resp, reqs, users>>

\* the answer reaches the caller
deliver ==
    /\ ~Ready
    /\ resp' = NoReply
    /\ UNCHANGED <<donations, claims, now, reqs, users>>

\* ============================================= handlers, run to completion
add_donation(quantity, expiry_date) ==
    LET code == add_guard(quantity, expiry_date, today) IN
    /\ Ready
    /\ Len(donations) < MaxDonations
    /\ IF code = 201
       THEN donations' = add_insert(donations, quantity, expiry_date)
       ELSE UNCHANGED donations
    /\ resp' = Notify(Response("add_donation", 0, NoNgo, code),
                       IF code = 201 THEN 1 ELSE 0)
    /\ UNCHANGED <<claims, now, reqs, users>>

update_donation(d, quantity, expiry_date) ==
    LET code == update_guard(donations[d], quantity, expiry_date, today) IN
    /\ Ready
    /\ IF code = 200
       THEN donations' = update_write(donations, d,
                                      update_data(update_body(quantity, expiry_date)))
       ELSE UNCHANGED donations
    /\ resp' = Response("update_donation", d, NoNgo, code)
    /\ UNCHANGED <<claims, now, reqs, users>>

cancel_donation(d) ==
    LET code == cancel_guard(donations[d]) IN
    /\ Ready
    /\ IF code = 200
       THEN /\ claims' = cancel_claims_write(claims, d)
            /\ donations' = cancel_donation_write(donations, d)
       ELSE UNCHANGED <<donations, claims>>
    /\ resp' = Notify(Response("cancel_donation", d, NoNgo, code),
                       IF code = 200 THEN 1 ELSE 0)
    /\ UNCHANGED <<now, reqs, users>>

claim_donation(d, n) ==
    LET code == claim_guard(donations[d], today) IN
    /\ Ready
    /\ IF code = 200
       THEN /\ Len(claims) < MaxClaims
            /\ claims' = claim_insert(claims, d, n, now)
            /\ donations' = claim_donation_write(donations, d)
       ELSE UNCHANGED <<donations, claims>>
    /\ resp' = Response("claim_donation", d, n, code)
    /\ UNCHANGED <<now, reqs, users>>

confirm_pickup(d) ==
    LET code == pickup_guard(donations[d]) IN
    /\ Ready
    /\ IF code = 0
       THEN /\ donations' = pickup_donation_write(donations, d)
            /\ claims' = pickup_claims_write(claims, d)
       ELSE UNCHANGED <<donations, claims>>
    /\ resp' = pickup_reply(d, code)
    /\ UNCHANGED <<now, reqs, users>>

RECURSIVE expire_loop(_, _)
expire_loop(todo, dons) ==
    IF todo = <<>> THEN dons
    ELSE expire_loop(Tail(todo), expire_write(dons, Head(todo)))

auto_expire_donations ==
    LET to_expire == expire_candidates(donations, today) IN
    /\ Ready
    /\ donations' = expire_loop(to_expire, donations)
    /\ resp' = Notify(SweepReply("auto_expire_donations", Len(to_expire)),
                       Len(to_expire))
    /\ UNCHANGED <<claims, now, reqs, users>>

\* the handler writes no donation and no claim row; it inserts one
\* notification per candidate and reports their number
send_expiry_reminders ==
    LET expiring == reminder_candidates(donations, today) IN
    /\ Ready
    /\ resp' = Notify(SweepReply("send_expiry_reminders", Len(expiring)),
                       Len(expiring))
    /\ UNCHANGED <<donations, claims, now, reqs, users>>

\* the donor is notified of a cancelled claim if the donation has a donor_id
RECURSIVE stale_loop(_, _, _, _, _)
stale_loop(todo, dons, cls, count, notes) ==
    IF todo = <<>>
    THEN [donations |-> dons, claims |-> cls, count |-> count, notes |-> notes]
    ELSE LET c == Head(todo)
             d == cls[c].donation_id
         IN  IF stale_skip(dons[d])
             THEN stale_loop(Tail(todo), dons, cls, count, notes)
             ELSE stale_loop(Tail(todo), stale_donation_write(dons, d),
                             claim_cancel_write(cls, c), count + 1,
                             IF dons[d].donor_id # NULL THEN notes + 1 ELSE notes)

auto_cancel_claimed_donations ==
    LET out == stale_loop(stale_candidates(claims, now), donations, claims, 0, 0) IN
    /\ Ready
    /\ donations' = out.donations
    /\ claims' = out.claims
    /\ resp' = Notify(SweepReply("auto_cancel_claimed_donations", out.count),
                       out.notes)
    /\ UNCHANGED <<now, reqs, users>>

ngo_cancel_claim(d, n) ==
    LET rows == ngo_claim_rows(claims, d, n)
        code == ngo_guard(rows)
    IN
    /\ Ready
    /\ IF code = 200
       THEN /\ claims' = claim_cancel_write(claims, rows[1])
            /\ donations' = ngo_donation_write(donations, d)
       ELSE UNCHANGED <<donations, claims>>
    /\ resp' = Notify(Response("ngo_cancel_claim", d, n, code),
                       IF code = 200 /\ donations[d].donor_id # NULL THEN 1 ELSE 0)
    /\ UNCHANGED <<now, reqs, users>>

Next ==
    \/ Tick(TickHours)
    \/ deliver
    \/ \E q \in Quantities, e \in ExpiryInputs : add_donation(q, e)
    \/ \E d \in DonationIds, q \in Quantities, e \in ExpiryInputs :
          update_donation(d, q, e)
    \/ \E d \in DonationIds : cancel_donation(d)
    \/ \E d \in DonationIds, n \in NGOs : claim_donation(d, n)
    \/ \E d \in DonationIds : confirm_pickup(d)
    \/ auto_expire_donations
    \/ send_expiry_reminders
    \/ auto_cancel_claimed_donations
    \/ \E d \in DonationIds, n \in NGOs : ngo_cancel_claim(d, n)

Spec == Init /\ [][Next]_vars

\* ===================================== handlers, one row-store call a step
\* reqs is the bag of requests in flight
Admit(r) == reqs (+) SetToBag({r})

Move(r, r2) == (reqs (-) SetToBag({r})) (+) SetToBag({r2})

Finish(r) == reqs (-) SetToBag({r})

CanAdmit == BagCardinality(reqs) < MaxInFlight

InFlight(op, pc) == {r \in BagToSet(reqs) : r.op = op /\ r.pc = pc}

\* claim rows that exist or that admitted claim requests are still to insert
ClaimsDue ==
    LET due == InFlight("claim_donation", "insert") IN
    Len(claims) + BagCardinality([r \in due |-> CopiesIn(r, reqs)])

\* ---- update_donation
rq_update_read(d, q, e) ==
    LET code == update_guard(donations[d], q, e, today)
        data == update_data(update_body(q, e))
    IN
    /\ Ready
    /\ CanAdmit
    /\ IF code = 200
       THEN /\ reqs' = Admit(Req("update_donation", "write", d, NoNgo, <<>>, 0,
                                 data.quantity, data.expiry_date))
            /\ UNCHANGED resp
       ELSE /\ resp' = Response("update_donation", d, NoNgo, code)
            /\ UNCHANGED reqs
    /\ UNCHANGED <<donations, claims, now, users>>

rq_update_write(r) ==
    /\ Ready
    /\ donations' = update_write(donations, r.id,
                                  [quantity |-> r.quantity, expiry_date |-> r.expiry_date])
    /\ reqs' = Finish(r)
    /\ resp' = Response("update_donation", r.id, NoNgo, 200)
    /\ UNCHANGED <<claims, now, users>>

\* ---- cancel_donation
rq_cancel_read(d) ==
    LET code == cancel_guard(donations[d]) IN
    /\ Ready
    /\ CanAdmit
    /\ IF code = 200
       THEN /\ reqs' = Admit(Req("cancel_donation", "claims", d, NoNgo, <<>>, 0, 0, 0))
            /\ UNCHANGED resp
       ELSE /\ resp' = Response("cancel_donation", d, NoNgo, code)
            /\ UNCHANGED reqs
    /\ UNCHANGED <<donations, claims, now, users>>

rq_cancel_claims(r) ==
    /\ Ready
    /\ claims' = cancel_claims_write(claims, r.id)
    /\ reqs' = Move(r, [r EXCEPT !.pc = "donation"])
    /\ UNCHANGED resp
    /\ UNCHANGED <<donations, now, users>>

rq_cancel_donation(r) ==
    /\ Ready
    /\ donations' = cancel_donation_write(donations, r.id)
    /\ reqs' = Finish(r)
    /\ resp' = Notify(Response("cancel_donation", r.id, NoNgo, 200), 1)
    /\ UNCHANGED <<claims, now, users>>

\* ---- claim_donation
rq_claim_read(d, n) ==
    LET code == claim_guard(donations[d], today) IN
    /\ Ready
    /\ CanAdmit
    /\ IF code = 200
       THEN /\ ClaimsDue < MaxClaims
            /\ reqs' = Admit(Req("claim_donation", "insert", d, n, <<>>, 0, 0, 0))
            /\ UNCHANGED resp
       ELSE /\ resp' = Response("claim_donation", d, n, code)
            /\ UNCHANGED reqs
    /\ UNCHANGED <<donations, claims, now, users>>

rq_claim_insert(r) ==
    /\ Ready
    /\ claims' = claim_insert(claims, r.id, r.ngo, now)
    /\ reqs' = Move(r, [r EXCEPT !.pc = "donation"])
    /\ UNCHANGED resp
    /\ UNCHANGED <<donations, now, users>>

rq_claim_donation(r) ==
    /\ Ready
    /\ donations' = claim_donation_write(donations, r.id)
    /\ reqs' = Finish(r)
    /\ resp' = Response("claim_donation", r.id, r.ngo, 200)
    /\ UNCHANGED <<claims, now, users>>

\* ---- confirm_pickup
rq_pickup_read(d) ==
    LET code == pickup_guard(donations[d]) IN
    /\ Ready
    /\ CanAdmit
    /\ IF code = 0
       THEN /\ reqs' = Admit(Req("confirm_pickup", "donation", d, NoNgo, <<>>, 0, 0, 0))
            /\ UNCHANGED resp
       ELSE /\ resp' = pickup_reply(d, code)
            /\ UNCHANGED reqs
    /\ UNCHANGED <<donations, claims, now, users>>

rq_pickup_donation(r) ==
    /\ Ready
    /\ donations' = pickup_donation_write(donations, r.id)
    /\ reqs' = Move(r, [r EXCEPT !.pc = "claims"])
    /\ UNCHANGED resp
    /\ UNCHANGED <<claims, now, users>>

rq_pickup_claims(r) ==
    /\ Ready
    /\ claims' = pickup_claims_write(claims, r.id)
    /\ reqs' = Finish(r)
    /\ resp' = pickup_reply(r.id, 0)
    /\ UNCHANGED <<donations, now, users>>

\* ---- auto_expire_donations
\* (the answer of a sweep's last step names the last row handled; the totals
\* a sweep reports are part of the answer of the run-to-completion handlers)
rq_expire_query ==
    LET todo == expire_candidates(donations, today) IN
    /\ Ready
    /\ CanAdmit
    /\ IF todo # <<>>
       THEN /\ reqs' = Admit(Req("auto_expire_donations", "row", 0, NoNgo, todo, 0, 0, 0))
            /\ UNCHANGED resp
       ELSE /\ resp' = Response("auto_expire_donations", 0, NoNgo, 200)
            /\ UNCHANGED reqs
    /\ UNCHANGED <<donations, claims, now, users>>

rq_expire_row(r) ==
    LET d == Head(r.todo)
        rest == Tail(r.todo)
    IN
    /\ Ready
    /\ donations' = expire_write(donations, d)
    /\ IF rest = <<>>
       THEN /\ reqs' = Finish(r)
            /\ resp' = Response("auto_expire_donations", d, NoNgo, 200)
       ELSE /\ reqs' = Move(r, [r EXCEPT !.todo = rest])
            /\ UNCHANGED resp
    /\ UNCHANGED <<claims, now, users>>

\* ---- auto_cancel_claimed_donations
rq_stale_query ==
    LET todo == stale_candidates(claims, now) IN
    /\ Ready
    /\ CanAdmit
    /\ IF todo # <<>>
       THEN /\ reqs' = Admit(Req("auto_cancel_claimed_donations", "read", 0, NoNgo, todo, 0, 0, 0))
            /\ UNCHANGED resp
       ELSE /\ resp' = Response("auto_cancel_claimed_donations", 0, NoNgo, 200)
            /\ UNCHANGED reqs
    /\ UNCHANGED <<donations, claims, now, users>>

\* the loop moves on to the next candidate claim, or the sweep returns
StaleAdvance(r, d) ==
    LET rest == Tail(r.todo) IN
    IF rest = <<>>
    THEN /\ reqs' = Finish(r)
         /\ resp' = Response("auto_cancel_claimed_donations", d, NoNgo, 200)
    ELSE /\ reqs' = Move(r, [r EXCEPT !.todo = rest, !.pc = "read"])
         /\ UNCHANGED resp

rq_stale_read(r) ==
    LET d == claims[Head(r.todo)].donation_id IN
    /\ Ready
    /\ IF stale_skip(donations[d])
       THEN StaleAdvance(r, d)
       ELSE /\ reqs' = Move(r, [r EXCEPT !.pc = "claim"])
            /\ UNCHANGED resp
    /\ UNCHANGED <<donations, claims, now, users>>

rq_stale_claim(r) ==
    LET c == Head(r.todo) IN
    /\ Ready
    /\ claims' = claim_cancel_write(claims, c)
    /\ reqs' = Move(r, [r EXCEPT !.pc = "donation"])
    /\ UNCHANGED resp
    /\ UNCHANGED <<donations, now, users>>

rq_stale_donation(r) ==
    LET d == claims[Head(r.todo)].donation_id IN
    /\ Ready
    /\ donations' = stale_donation_write(donations, d)
    /\ StaleAdvance(r, d)
    /\ UNCHANGED <<claims, now, users>>

\* ---- ngo_cancel_claim
rq_ngo_read(d, n) ==
    LET rows == ngo_claim_rows(claims, d, n)
        code == ngo_guard(rows)
    IN
    /\ Ready
    /\ CanAdmit
    /\ IF code = 200
       THEN /\ reqs' = Admit(Req("ngo_cancel_claim", "claim", d, n, <<>>, rows[1], 0, 0))
            /\ UNCHANGED resp
       ELSE /\ resp' = Response("ngo_cancel_claim", d, n, code)
            /\ UNCHANGED reqs
    /\ UNCHANGED <<donations, claims, now, users>>

rq_ngo_claim(r) ==
    /\ Ready
    /\ claims' = claim_cancel_write(claims, r.claim)
    /\ reqs' = Move(r, [r EXCEPT !.pc = "donation"])
    /\ UNCHANGED resp
    /\ UNCHANGED <<donations, now, users>>

rq_ngo_donation(r) ==
    /\ Ready
    /\ donations' = ngo_donation_write(donations, r.id)
    /\ reqs' = Finish(r)
    /\ resp' = Notify(Response("ngo_cancel_claim", r.id, r.ngo, 200),
                       IF donations[r.id].donor_id # NULL THEN 1 ELSE 0)
    /\ UNCHANGED <<claims, now, users>>

NextRace ==
    \/ Tick(TickHours)
    \/ deliver
    \/ \E q \in Quantities, e \in ExpiryInputs : add_donation(q, e)
    \/ send_expiry_reminders
    \/ \E d \in DonationIds, q \in Quantities, e \in ExpiryInputs :
          rq_update_read(d, q, e)
    \/ \E r \in InFlight("update_donation", "write") : rq_update_write(r)
    \/ \E d \in DonationIds : rq_cancel_read(d)
    \/ \E r \in InFlight("cancel_donation", "claims") : rq_cancel_claims(r)
    \/ \E r \in InFlight("cancel_donation", "donation") : rq_cancel_donation(r)
    \/ \E d \in DonationIds, n \in NGOs : rq_claim_read(d, n)
    \/ \E r \in InFlight("claim_donation", "insert") : rq_claim_insert(r)
    \/ \E r \in InFlight("claim_donation", "donation") : rq_claim_donation(r)
    \/ \E d \in DonationIds : rq_pickup_read(d)
    \/ \E r \in InFlight("confirm_pickup", "donation") : rq_pickup_donation(r)
    \/ \E r \in InFlight("confirm_pickup", "claims") : rq_pickup_claims(r)
    \/ rq_expire_query
    \/ \E r \in InFlight("auto_expire_donations", "row") : rq_expire_row(r)
    \/ rq_stale_query
    \/ \E r \in InFlight("auto_cancel_claimed_donations", "read") : rq_stale_read(r)
    \/ \E r \in InFlight("auto_cancel_claimed_donations", "claim") : rq_stale_claim(r)
    \/ \E r \in InFlight("auto_cancel_claimed_donations", "donation") : rq_stale_donation(r)
    \/ \E d \in DonationIds, n \in NGOs : rq_ngo_read(d, n)
    \/ \E r \in InFlight("ngo_cancel_claim", "claim") : rq_ngo_claim(r)
    \/ \E r \in InFlight("ngo_cancel_claim", "donation") : rq_ngo_donation(r)

SpecRace == Init /\ [][NextRace]_vars

\* ============ handlers run to completion, a pickup caught between its writes
\* confirm_pickup writes the donation and then its claim rows; between the
\* two writes a claimed row belongs to a completed donation, the state the
\* stale-claim sweep's per-row guard is written for.  One pickup at a time is
\* between its steps; every other handler that writes status, final_state or
\* a claim row runs to completion around it (update_donation and
\* send_expiry_reminders write none of these and are left out).
NextSweep ==
    \/ Tick(TickHours)
    \/ deliver
    \/ \E q \in Quantities, e \in ExpiryInputs : add_donation(q, e)
    \/ \E d \in DonationIds : cancel_donation(d)
    \/ \E d \in DonationIds, n \in NGOs : claim_donation(d, n)
    \/ \E d \in DonationIds : reqs = EmptyBag /\ rq_pickup_read(d)
    \/ \E r \in InFlight("confirm_pickup", "donation") : rq_pickup_donation(r)
    \/ \E r \in InFlight("confirm_pickup", "claims") : rq_pickup_claims(r)
    \/ auto_expire_donations
    \/ auto_cancel_claimed_donations
    \/ \E d \in DonationIds, n \in NGOs : ngo_cancel_claim(d, n)

SpecSweep == Init /\ [][NextSweep]_vars

\* ================================================ the deletion of accounts
delete_user_admin(user_id) ==
    LET code == delete_user_admin_guard(user_id, users) IN
    /\ Ready
    /\ IF code = 200
       THEN /\ donations' = anonymise_write(donations, user_id)
            /\ claims' = claims_delete(claims, user_id)
            /\ users' = users \ {user_id}
       ELSE UNCHANGED <<donations, claims, users>>
    /\ resp' = Response("delete_user_admin", 0, user_id, code)
    /\ UNCHANGED <<now, reqs>>

delete_account(user_id) ==
    LET code == delete_account_guard(user_id, users) IN
    /\ Ready
    /\ IF code = 200
       THEN /\ donations' = anonymise_write(donations, user_id)
            /\ users' = users \ {user_id}
       ELSE UNCHANGED <<donations, users>>
    /\ resp' = Response("delete_account", 0, user_id, code)
    /\ UNCHANGED <<claims, now, reqs>>

\* handlers run to completion; a donor's and an NGO's requests come from
\* accounts that exist, a pickup is confirmed by whoever scans the code
NextAdmin ==
    \/ Tick(TickHours)
    \/ deliver
    \/ \E q \in Quantities, e \in ExpiryInputs : Donor \in users /\ add_donation(q, e)
    \/ \E d \in DonationIds, q \in Quantities, e \in ExpiryInputs :
          Donor \in users /\ update_donation(d, q, e)
    \/ \E d \in DonationIds : Donor \in users /\ cancel_donation(d)
    \/ \E d \in DonationIds, n \in NGOs \cap users : claim_donation(d, n)
    \/ \E d \in DonationIds : confirm_pickup(d)
    \/ auto_expire_donations
    \/ send_expiry_reminders
    \/ auto_cancel_claimed_donations
    \/ \E d \in DonationIds, n \in NGOs \cap users : ngo_cancel_claim(d, n)
    \/ \E u \in Accounts : delete_user_admin(u)
    \/ \E u \in Accounts : delete_account(u)

SpecAdmin == Init /\ [][NextAdmin]_vars

\* =================================== the in-process timer, no sweep request
\* the job that start_scheduler registers, run by the scheduler's thread at
\* every interval
start_scheduler == send_expiry_reminders

\* the requests of donors and NGOs and the timer's job; nobody calls the
\* endpoints of the auto-expire and of the stale-claim sweep
NextTimer ==
    \/ Tick(TickHours)
    \/ deliver
    \/ \E q \in Quantities, e \in ExpiryInputs : add_donation(q, e)
    \/ \E d \in DonationIds, q \in Quantities, e \in ExpiryInputs :
          update_donation(d, q, e)
    \/ \E d \in DonationIds : cancel_donation(d)
    \/ \E d \in DonationIds, n \in NGOs : claim_donation(d, n)
    \/ \E d \in DonationIds : confirm_pickup(d)
    \/ \E d \in DonationIds, n \in NGOs : ngo_cancel_claim(d, n)
    \/ start_scheduler

\* an answer on its way is delivered; the clock and the scheduler's thread
\* do not wait for requests, so time passes and the job runs again and again
\* however many requests come in between (strong fairness: a step of theirs
\* is possible only between two answers); no request of a donor or of an
\* NGO is bound to come
SpecTimer ==
    /\ Init
    /\ [][NextTimer]_vars
    /\ WF_vars(deliver)
    /\ SF_vars(Tick(TickHours))
    /\ SF_vars(start_scheduler)

\* ============== handlers run to completion, a call of theirs may raise
\* The calls a handler issues after its validation, in the order of its code.
\* A call that raises ends the handler in its outer except clause, which
\* answers 500; what the calls before it have written stays written.  The
\* e-mail step sits in a try block of its own: its failure is printed and the
\* handler goes on.
add_calls ==
    <<"food_donations.insert", "food_donations.update", "notifications.insert",
      "mail.send">>

cancel_calls ==
    <<"food_donations.select", "ngo_claims.update", "food_donations.update",
      "notifications.insert", "mail.send">>

claim_calls ==
    <<"food_donations.select", "ngo_claims.insert", "food_donations.update">>

pickup_calls ==
    <<"food_donations.select", "food_donations.update", "ngo_claims.update",
      "notifications.insert", "mail.send">>

ngo_calls ==
    <<"ngo_claims.select", "ngo_claims.update", "food_donations.update",
      "food_donations.select", "notifications.insert">>

expire_calls == <<"food_donations.update", "notifications.insert">>

stale_calls ==
    <<"food_donations.select", "ngo_claims.update", "food_donations.update",
      "notifications.insert">>

CallsOf(calls) == {calls[i] : i \in 1..Len(calls)}

\* call x comes before the call that raised, so it has been executed
Done(calls, raised, x) ==
    \E i, j \in 1..Len(calls) : calls[i] = x /\ calls[j] = raised /\ i < j

add_donation_raises(quantity, expiry_date, call) ==
    IF call = "mail.send"
    THEN /\ add_guard(quantity, expiry_date, today) = 201
         /\ add_donation(quantity, expiry_date)
    ELSE /\ Ready
         /\ call \in CallsOf(add_calls)
         /\ Len(donations) < MaxDonations
         /\ add_guard(quantity, expiry_date, today) = 201
         /\ donations' = IF Done(add_calls, call, "food_donations.insert")
                         THEN add_insert(donations, quantity, expiry_date)
                         ELSE donations
         /\ resp' = Response("add_donation", 0, NoNgo, 500)
         /\ UNCHANGED <<claims, now, reqs, users>>

cancel_donation_raises(d, call) ==
    IF call = "mail.send"
    THEN /\ cancel_guard(donations[d]) = 200
         /\ cancel_donation(d)
    ELSE /\ Ready
         /\ call \in CallsOf(cancel_calls)
         /\ Done(cancel_calls, call, "food_donations.select")
               => cancel_guard(donations[d]) = 200
         /\ claims' = IF Done(cancel_calls, call, "ngo_claims.update")
                      THEN cancel_claims_write(claims, d)
                      ELSE claims
         /\ donations' = IF Done(cancel_calls, call, "food_donations.update")
                         THEN cancel_donation_write(donations, d)
                         ELSE donations
         /\ resp' = Response("cancel_donation", d, NoNgo, 500)
         /\ UNCHANGED <<now, reqs, users>>

claim_donation_raises(d, n, call) ==
    /\ Ready
    /\ call \in CallsOf(claim_calls)
    /\ Done(claim_calls, call, "food_donations.select")
          => claim_guard(donations[d], today) = 200
    /\ IF Done(claim_calls, call, "ngo_claims.insert")
       THEN /\ Len(claims) < MaxClaims
            /\ claims' = claim_insert(claims, d, n, now)
       ELSE UNCHANGED claims
    /\ resp' = Response("claim_donation", d, n, 500)
    /\ UNCHANGED <<donations, now, reqs, users>>

confirm_pickup_raises(d, call) ==
    IF call = "mail.send"
    THEN /\ pickup_guard(donations[d]) = 0
         /\ confirm_pickup(d)
    ELSE /\ Ready
         /\ call \in CallsOf(pickup_calls)
         /\ Done(pickup_calls, call, "food_donations.select")
               => pickup_guard(donations[d]) = 0
         /\ donations' = IF Done(pickup_calls, call, "food_donations.update")
                         THEN pickup_donation_write(donations, d)
                         ELSE donations
         /\ claims' = IF Done(pickup_calls, call, "ngo_claims.update")
                      THEN pickup_claims_write(claims, d)
                      ELSE claims
         /\ resp' = Response("confirm_pickup", d, NoNgo, 500)
         /\ UNCHANGED <<now, reqs, users>>

ngo_cancel_claim_raises(d, n, call) ==
    LET rows == ngo_claim_rows(claims, d, n) IN
    /\ Ready
    /\ call \in CallsOf(ngo_calls)
    /\ Done(ngo_calls, call, "ngo_claims.select") => ngo_guard(rows) = 200
    /\ call = "notifications.insert" => donations[d].donor_id # NULL
    /\ claims' = IF Done(ngo_calls, call, "ngo_claims.update")
                 THEN claim_cancel_write(claims, rows[1])
                 ELSE claims
    /\ donations' = IF Done(ngo_calls, call, "food_donations.update")
                    THEN ngo_donation_write(donations, d)
                    ELSE donations
    /\ resp' = Response("ngo_cancel_claim", d, n, 500)
    /\ UNCHANGED <<now, reqs, users>>

\* the sweep raises at candidate i: the candidates before it are handled
auto_expire_donations_raises(i, call) ==
    LET to_expire == expire_candidates(donations, today)
        handled == IF Done(expire_calls, call, "food_donations.update")
                   THEN i ELSE i - 1
    IN
    /\ Ready
    /\ call \in CallsOf(expire_calls)
    /\ i \in 1..Len(to_expire)
    /\ donations' = expire_loop(SubSeq(to_expire, 1, handled), donations)
    /\ resp' = Notify(Response("auto_expire_donations", 0, NoNgo, 500), i - 1)
    /\ UNCHANGED <<claims, now, reqs, users>>

auto_cancel_claimed_donations_raises(i, call) ==
    LET todo == stale_candidates(claims, now)
        out == stale_loop(SubSeq(todo, 1, i - 1), donations, claims, 0, 0)
        c == todo[i]
        d == claims[c].donation_id
    IN
    /\ Ready
    /\ call \in CallsOf(stale_calls)
    /\ i \in 1..Len(todo)
    /\ Done(stale_calls, call, "food_donations.select")
          => ~stale_skip(out.donations[d])
    /\ call = "notifications.insert" => donations[d].donor_id # NULL
    /\ claims' = IF Done(stale_calls, call, "ngo_claims.update")
                 THEN claim_cancel_write(out.claims, c)
                 ELSE out.claims
    /\ donations' = IF Done(stale_calls, call, "food_donations.update")
                    THEN stale_donation_write(out.donations, d)
                    ELSE out.donations
    /\ resp' = Notify(Response("auto_cancel_claimed_donations", 0, NoNgo, 500),
                       out.notes)
    /\ UNCHANGED <<now, reqs, users>>

NextFault ==
    \/ Tick(TickHours)
    \/ deliver
    \/ \E q \in Quantities, e \in ExpiryInputs : add_donation(q, e)
    \/ \E d \in DonationIds : cancel_donation(d)
    \/ \E d \in DonationIds, n \in NGOs : claim_donation(d, n)
    \/ \E d \in DonationIds : confirm_pickup(d)
    \/ auto_expire_donations
    \/ auto_cancel_claimed_donations
    \/ \E d \in DonationIds, n \in NGOs : ngo_cancel_claim(d, n)
    \/ \E q \in Quantities, e \in ExpiryInputs, call \in CallsOf(add_calls) :
          add_donation_raises(q, e, call)
    \/ \E d \in DonationIds, call \in CallsOf(cancel_calls) :
          cancel_donation_raises(d, call)
    \/ \E d \in DonationIds, n \in NGOs, call \in CallsOf(claim_calls) :
          claim_donation_raises(d, n, call)
    \/ \E d \in DonationIds, call \in CallsOf(pickup_calls) :
          confirm_pickup_raises(d, call)
    \/ \E d \in DonationIds, n \in NGOs, call \in CallsOf(ngo_calls) :
          ngo_cancel_claim_raises(d, n, call)
    \/ \E i \in 1..MaxDonations, call \in CallsOf(expire_calls) :
          auto_expire_donations_raises(i, call)
    \/ \E i \in 1..MaxClaims, call \in CallsOf(stale_calls) :
          auto_cancel_claimed_donations_raises(i, call)

SpecFault == Init /\ [][NextFault]_vars

\* ==================================== list_donations, a query that retries
\* what an execution of the query gives: a result, or an exception with the
\* text of its message
Errors == {"WinError 10035", "httpx.ReadError", "httpcore.ReadError", "APIError"}

Outcomes == {"ok"} \cup Errors

\* the message names a transient transport failure
transient(msg) == msg \in {"WinError 10035", "httpx.ReadError", "httpcore.ReadError"}

\* _execute_with_retry retrying after any exception
may_retry_any_error(msg, attempt, retries) == attempt < retries

\* _execute_with_retry: sleep and run the query again
may_retry(msg, attempt, retries) == transient(msg) /\ attempt < retries

\* list_donations: the status it answers for an exception
list_error_code(msg) == IF transient(msg) THEN 503 ELSE 500

rq_list_read ==
    /\ Ready
    /\ CanAdmit
    /\ reqs' = Admit(Req("list_donations", "execute", 0, NoNgo, <<>>, 0, 0, 0))
    /\ UNCHANGED <<donations, claims, now, resp, users>>

\* one pass of the loop of _execute_with_retry: factory().execute()
rq_list_execute(r, outcome) ==
    /\ Ready
    /\ r.attempt \in 0..Retries
    /\ IF outcome = "ok"
       THEN /\ reqs' = Finish(r)
            /\ resp' = Response("list_donations", 0, NoNgo, 200)
       ELSE IF may_retry(outcome, r.attempt, Retries)
       THEN /\ reqs' = Move(r, [r EXCEPT !.attempt = @ + 1])
            /\ UNCHANGED resp
       ELSE /\ reqs' = Finish(r)
            /\ resp' = Response("list_donations", 0, NoNgo, list_error_code(outcome))
    /\ UNCHANGED <<donations, claims, now, users>>

\* one list request at a time, at one wall-clock time
NextRetry ==
    \/ deliver
    \/ \E q \in Quantities, e \in ExpiryInputs : add_donation(q, e)
    \/ \E d \in DonationIds, n \in NGOs : claim_donation(d, n)
    \/ \E q \in Quantities, e \in ExpiryInputs, call \in CallsOf(add_calls) :
          add_donation_raises(q, e, call)
    \/ \E d \in DonationIds, n \in NGOs, call \in CallsOf(claim_calls) :
          claim_donation_raises(d, n, call)
    \/ reqs = EmptyBag /\ rq_list_read
    \/ \E r \in InFlight("list_donations", "execute"), outcome \in Outcomes :
          rq_list_execute(r, outcome)

SpecRetry == Init /\ [][NextRetry]_vars

TypeOK ==
    /\ now \in 0..MaxNow
    /\ users \subseteq Accounts
    /\ \A d \in DonationIds :
          /\ donations[d].status \in Statuses
          /\ donations[d].final_state \in FinalStates
          /\ donations[d].donor_id \in {Donor, NULL}
    /\ \A c \in ClaimIds :
          /\ claims[c].status \in ClaimStatuses
          /\ claims[c].donation_id \in DonationIds
          /\ claims[c].ngo_id \in NGOs

\* ================================================================ claims
DonorCancelled(don) == don.final_state = "cancelled_by_donor"

ClaimedRows(cls, d) == {c \in 1..Len(cls) : cls[c].donation_id = d /\ cls[c].status = "claimed"}

CompletedRows(cls, d) == {c \in 1..Len(cls) : cls[c].donation_id = d /\ cls[c].status = "completed"}

\* an in-flight request of handler op takes its next step
StepOf(op) ==
    \E r \in BagToSet(reqs) : r.op = op /\ CopiesIn(r, reqs') < CopiesIn(r, reqs)

\* C1: under run-to-completion handlers, a donation whose final_state is
\* cancelled_by_donor has status available, and after every further step it
\* still has status available and final_state cancelled_by_donor.
C1_DonorCancelPermanent ==
    [][\A d \in DonationIds :
          DonorCancelled(donations[d]) =>
             /\ donations[d].status = "available"
             /\ donations'[d].status = "available"
             /\ DonorCancelled(donations'[d])]_vars

\* a claim was attempted on a donor-cancelled donation and was refused
C1_Witness ==
    /\ resp.op = "claim_donation"
    /\ resp.code = 409
    /\ DonorCancelled(donations[resp.id])

\* C2: in every reachable state of the interleaved handlers a donation has
\* at most one claimed row; stated for the case the claim singles out, two
\* NGOs racing: no donation has claimed rows of two different NGOs.
C2_OneActiveClaim ==
    \A d \in DonationIds :
       \A c1, c2 \in ClaimedRows(claims, d) :
          c1 = c2 \/ claims[c1].ngo_id = claims[c2].ngo_id

\* C3: on a donation that an NGO's self-cancel left in (available,
\* cancelled_by_ngo) and that is not past its expiry date, a claim_donation
\* by another NGO than the one whose claim was cancelled answers 200,
\* inserts a claimed row for that NGO and sets status claimed.
C3_ReclaimAfterNgoCancel ==
    [][(/\ resp'.op = "claim_donation"
        /\ donations[resp'.id].status = "available"
        /\ donations[resp'.id].final_state = "cancelled_by_ngo"
        /\ donations[resp'.id].expiry_date >= today
        /\ \E c \in ClaimIds : /\ claims[c].donation_id = resp'.id
                               /\ claims[c].status = "cancelled"
                               /\ claims[c].ngo_id # resp'.ngo)
       => /\ resp'.code = 200
          /\ Len(claims') = Len(claims) + 1
          /\ claims'[Len(claims')].status = "claimed"
          /\ claims'[Len(claims')].ngo_id = resp'.ngo
          /\ donations'[resp'.id].status = "claimed"]_vars

\* C4: under run-to-completion handlers, no step changes any field of a
\* donation whose status is completed.
C4_CompletedAbsorbing ==
    [][\A d \in DonationIds :
          donations[d].status = "completed" => donations'[d] = donations[d]]_vars

\* a donor cancel was attempted on a completed donation and was refused
C4_Witness ==
    /\ resp.op = "cancel_donation"
    /\ resp.code = 400
    /\ donations[resp.id].status = "completed"

\* C5: a pickup scan of a (claimed, null) donation answers 200, sets the
\* donation to completed and its claimed rows to completed; a scan of a
\* completed donation answers 200 "already confirmed" and changes no
\* donation and no claim row; a completed donation never leaves completed,
\* and no donation ever has more than one completed claim row.
C5_PickupIdempotent ==
    [][/\ \A d \in DonationIds :
             /\ (/\ resp'.op = "confirm_pickup"
                 /\ resp'.id = d
                 /\ donations[d].status = "claimed"
                 /\ donations[d].final_state = NULL)
                => /\ resp'.code = 200
                   /\ resp'.text = Confirmed
                   /\ donations'[d].status = "completed"
                   /\ ClaimedRows(claims', d) = {}
                   /\ CompletedRows(claims', d) = CompletedRows(claims, d) \cup ClaimedRows(claims, d)
             /\ (/\ resp'.op = "confirm_pickup"
                 /\ resp'.id = d
                 /\ donations[d].status = "completed")
                => /\ resp'.code = 200
                   /\ resp'.text = AlreadyConfirmed
                   /\ UNCHANGED <<donations, claims>>
             /\ donations[d].status = "completed" => donations'[d].status = "completed"
             /\ Cardinality(CompletedRows(claims', d)) <= 1]_vars

\* a completed donation was scanned again
C5_Witness ==
    /\ resp.op = "confirm_pickup"
    /\ resp.text = AlreadyConfirmed
    /\ donations[resp.id].status = "completed"
    /\ Cardinality(CompletedRows(claims, resp.id)) = 1

\* C6: no step of the auto-expire sweep changes the final_state of a
\* donation that is cancelled_by_donor, nor any field of a completed
\* donation, whatever commits between its query and its per-row update.
C6_ExpireRespectsLocks ==
    [][StepOf("auto_expire_donations") =>
          \A d \in DonationIds :
             /\ DonorCancelled(donations[d]) => DonorCancelled(donations'[d])
             /\ donations[d].status = "completed" => donations'[d] = donations[d]]_vars

\* C7: in every reachable state of the interleaved handlers, no claim row
\* with status claimed belongs to a donation that is cancelled_by_donor.
C7_NoClaimOnDonorCancelled ==
    \A c \in ClaimIds :
       claims[c].status = "claimed" => ~DonorCancelled(donations[claims[c].donation_id])

\* C8: no step of ngo_cancel_claim or of the stale-claim sweep changes the
\* final_state of a donation that is cancelled_by_donor.
C8_NgoAndStaleRespectDonorCancel ==
    [][StepOf("ngo_cancel_claim") \/ StepOf("auto_cancel_claimed_donations") =>
          \A d \in DonationIds :
             DonorCancelled(donations[d]) => DonorCancelled(donations'[d])]_vars

\* C9: claim_donation answers 200 exactly when the donation is available,
\* has final_state null and expiry_date >= today; then it appends one claim
\* row (this donation, the requesting NGO, claimed) and only sets the
\* donation's status to claimed; otherwise it answers 409 and changes no
\* donation and no claim row.
C9_ClaimExactly ==
    [][resp'.op = "claim_donation" =>
          LET d == resp'.id
              ok == /\ donations[d].status = "available"
                    /\ donations[d].final_state = NULL
                    /\ donations[d].expiry_date >= today
          IN  IF ok
              THEN /\ resp'.code = 200
                   /\ Len(claims') = Len(claims) + 1
                   /\ SubSeq(claims', 1, Len(claims)) = claims
                   /\ claims'[Len(claims')].donation_id = d
                   /\ claims'[Len(claims')].ngo_id = resp'.ngo
                   /\ claims'[Len(claims')].status = "claimed"
                   /\ donations' = [donations EXCEPT ![d].status = "claimed"]
                   /\ donations'[d].final_state = donations[d].final_state
              ELSE /\ resp'.code = 409
                   /\ UNCHANGED <<donations, claims>>]_vars

\* a claim on an available, unfinalized donation was refused for its date
C9_Witness ==
    /\ resp.op = "claim_donation"
    /\ resp.code = 409
    /\ donations[resp.id].status = "available"
    /\ donations[resp.id].final_state = NULL
    /\ donations[resp.id].expiry_date < today

\* C10: donor cancel on a donation that is neither completed nor
\* cancelled_by_donor answers 200, sets it to (available,
\* cancelled_by_donor) and sets exactly its claimed rows to cancelled; on a
\* completed or already donor-cancelled donation it answers 400 and changes
\* no donation and no claim row.
C10_DonorCancel ==
    [][resp'.op = "cancel_donation" =>
          LET d == resp'.id
              ok == /\ donations[d].status # "completed"
                    /\ ~DonorCancelled(donations[d])
          IN  IF ok
              THEN /\ resp'.code = 200
                   /\ donations' = [donations EXCEPT ![d].status = "available",
                                                     ![d].final_state = "cancelled_by_donor"]
                   /\ Len(claims') = Len(claims)
                   /\ \A c \in ClaimIds :
                         claims'[c] = IF c \in ClaimedRows(claims, d)
                                      THEN [claims[c] EXCEPT !.status = "cancelled"]
                                      ELSE claims[c]
              ELSE /\ resp'.code = 400
                   /\ UNCHANGED <<donations, claims>>]_vars

\* a donor cancel of a claimed donation went through
C10_Witness ==
    /\ resp.op = "cancel_donation"
    /\ resp.code = 200
    /\ DonorCancelled(donations[resp.id])
    /\ \E c \in ClaimIds : claims[c].donation_id = resp.id /\ claims[c].status = "cancelled"
    /\ ClaimedRows(claims, resp.id) = {}

\* C11: one run of the auto-expire sweep sets final_state to expired on
\* exactly the donations that have final_state null, a status other than
\* completed and expiry_date <= today, changes no other field of them,
\* changes no other donation and no claim row, and reports their number; a
\* claim attempt on a donation with final_state expired answers 409 and
\* changes nothing.
C11_AutoExpireExactly ==
    [][/\ resp'.op = "auto_expire_donations" =>
             LET due == {d \in DonationIds : /\ donations[d].final_state = NULL
                                             /\ donations[d].status # "completed"
                                             /\ donations[d].expiry_date <= today}
             IN  /\ resp'.code = 200
                 /\ resp'.count = Cardinality(due)
                 /\ Len(donations') = Len(donations)
                 /\ \A d \in DonationIds :
                       donations'[d] = IF d \in due
                                       THEN [donations[d] EXCEPT !.final_state = "expired"]
                                       ELSE donations[d]
                 /\ UNCHANGED claims
       /\ (resp'.op = "claim_donation" /\ donations[resp'.id].final_state = "expired")
             => /\ resp'.code = 409
                /\ UNCHANGED <<donations, claims>>]_vars

\* the sweep expired a claimed donation whose expiry date is today
C11_Witness ==
    /\ resp.op = "auto_expire_donations"
    /\ resp.count >= 1
    /\ \E d \in DonationIds : /\ donations[d].final_state = "expired"
                               /\ donations[d].status = "claimed"
                               /\ donations[d].expiry_date = today

\* the claimed rows that are at least StaleHours old at time t
StaleRows(cls, t) ==
    {c \in 1..Len(cls) : cls[c].status = "claimed" /\ cls[c].claimed_at + StaleHours <= t}

\* C12: one run of the stale-claim sweep sets to cancelled exactly the claim
\* rows that are claimed, were claimed at or before now - 24 hours and whose
\* donation is not completed; it sets exactly the donations of those rows to
\* (available, null) and changes no other field; a row of that age whose
\* donation is completed, and that donation, are left unchanged.
C12_StaleSweepExactly ==
    [][resp'.op = "auto_cancel_claimed_donations" =>
          LET hit == {c \in StaleRows(claims, now) :
                         donations[claims[c].donation_id].status # "completed"}
              freed == {claims[c].donation_id : c \in hit}
          IN  /\ resp'.code = 200
              /\ resp'.count = Cardinality(hit)
              /\ Len(claims') = Len(claims)
              /\ \A c \in ClaimIds :
                    claims'[c] = IF c \in hit
                                 THEN [claims[c] EXCEPT !.status = "cancelled"]
                                 ELSE claims[c]
              /\ Len(donations') = Len(donations)
              /\ \A d \in DonationIds :
                    donations'[d] = IF d \in freed
                                    THEN [donations[d] EXCEPT !.status = "available",
                                                              !.final_state = NULL]
                                    ELSE donations[d]]_vars

\* the sweep ran over a claim exactly 24 hours old whose donation a pickup
\* had just completed, and skipped it
C12_Witness ==
    /\ resp.op = "auto_cancel_claimed_donations"
    /\ \E c \in ClaimIds : /\ claims[c].status = "claimed"
                           /\ claims[c].claimed_at + StaleHours = now
                           /\ donations[claims[c].donation_id].status = "completed"

C14_EditRespectsLocks ==
    [][resp'.op = "update_donation" =>
          LET d == resp'.id IN
          /\ (donations[d].final_state # NULL \/ donations[d].status = "completed")
                => resp'.code = 400
          /\ resp'.code \in {200, 400}
          /\ resp'.code = 400 => UNCHANGED <<donations, claims>>
          /\ resp'.code = 200 =>
                /\ donations'[d].status = donations[d].status
                /\ donations'[d].final_state = donations[d].final_state
                /\ Len(donations') = Len(donations)
                /\ \A o \in DonationIds \ {d} : donations'[o] = donations[o]
                /\ UNCHANGED claims]_vars

\* an edit of a claimed donation was accepted and the donation is still claimed
C14_Witness ==
    /\ resp.op = "update_donation"
    /\ resp.code = 200
    /\ donations[resp.id].status = "claimed"
    /\ donations[resp.id].final_state = NULL

\* C15: send_expiry_reminders changes no donation and no claim row, and the
\* number of notifications it inserts and reports is the number of
\* donations whose expiry_date is today or tomorrow, whatever their status
\* and final_state.
C15_RemindersOnlyNotify ==
    [][resp'.op = "send_expiry_reminders" =>
          /\ resp'.code = 200
          /\ resp'.count = Cardinality({d \in DonationIds :
                                          donations[d].expiry_date \in today..(today + 1)})
          /\ UNCHANGED <<donations, claims>>]_vars

\* a reminder went out for a donation that its donor had cancelled
C15_Witness ==
    /\ resp.op = "send_expiry_reminders"
    /\ resp.count >= 1
    /\ \E d \in DonationIds : /\ DonorCancelled(donations[d])
                               /\ donations[d].expiry_date \in today..(today + 1)

\* donation d meets the precondition of the auto-expire sweep
ExpireDue(d) ==
    /\ d \in DonationIds
    /\ donations[d].final_state = NULL
    /\ donations[d].status # "completed"
    /\ donations[d].expiry_date <= today

\* claim c meets the precondition of the stale-claim sweep
StaleDue(c) ==
    /\ c \in StaleRows(claims, now)
    /\ donations[claims[c].donation_id].status # "completed"

\* C16: with no request to the sweep endpoints, the timer alone brings it
\* about that a donation that meets the auto-expire precondition does not
\* meet it for ever (it gets final_state expired), and that a claim that is
\* claimed for 24 hours on a donation that is not completed does not stay
\* so for ever (it gets cancelled).
C16_TimerRunsSweeps ==
    /\ \A d \in 1..MaxDonations : ExpireDue(d) ~> ~ExpireDue(d)
    /\ \A c \in 1..MaxClaims : StaleDue(c) ~> ~StaleDue(c)

\* C17: no step removes a donation row or a claim row, and a step that
\* deletes an account changes no claim row and, of the donations, only
\* sets donor_id to null on those of the deleted account.
C17_NoRowDeleted ==
    [][/\ Len(donations') >= Len(donations)
       /\ Len(claims') >= Len(claims)
       /\ users' # users =>
             /\ claims' = claims
             /\ Len(donations') = Len(donations)
             /\ \A d \in DonationIds :
                   donations'[d] = IF donations[d].donor_id \in users \ users'
                                   THEN [donations[d] EXCEPT !.donor_id = NULL]
                                   ELSE donations[d]]_vars

\* a JSON number counted in halves that is a positive integer
PositiveInteger(quantity) == quantity > 0 /\ quantity % 2 = 0

\* C18: add_donation answers 201 and appends one row, in state (available,
\* null), exactly when the quantity of the request is a positive integer and
\* its expiry_date is after today; otherwise it answers 400 and inserts no
\* row.
C18_AddValidates ==
    [][\A q \in Quantities, e \in ExpiryInputs :
          add_donation(q, e) =>
             IF PositiveInteger(q) /\ e > today
             THEN /\ resp'.code = 201
                  /\ Len(donations') = Len(donations) + 1
                  /\ SubSeq(donations', 1, Len(donations)) = donations
                  /\ donations'[Len(donations')].status = "available"
                  /\ donations'[Len(donations')].final_state = NULL
             ELSE /\ resp'.code = 400
                  /\ UNCHANGED donations]_vars

\* C19: under every interleaving of the handlers' row-store calls, a claim
\* row whose status is completed or cancelled keeps that status in every
\* further step.
C19_ClaimTerminal ==
    [][\A c \in ClaimIds :
          claims[c].status \in {"completed", "cancelled"}
             => claims'[c].status = claims[c].status]_vars

\* C20: a write of the stale-claim sweep or of ngo_cancel_claim that comes
\* late affects no row of a record that has already moved on: no step of
\* theirs changes a donation that is completed, whatever has committed since
\* the sweep or the action read the rows it writes.
C20_LateWritesHarmless ==
    [][StepOf("auto_cancel_claimed_donations") \/ StepOf("ngo_cancel_claim") =>
          \A d \in DonationIds :
             donations[d].status = "completed" => donations'[d] = donations[d]]_vars

\* request r issues, in this step, the call that writes claim rows
ClaimRowWrite(r) ==
    \/ r.op = "claim_donation" /\ r.pc = "insert" /\ rq_claim_insert(r)
    \/ r.op = "cancel_donation" /\ r.pc = "claims" /\ rq_cancel_claims(r)
    \/ r.op = "confirm_pickup" /\ r.pc = "claims" /\ rq_pickup_claims(r)
    \/ r.op = "auto_cancel_claimed_donations" /\ r.pc = "claim" /\ rq_stale_claim(r)
    \/ r.op = "ngo_cancel_claim" /\ r.pc = "claim" /\ rq_ngo_claim(r)

\* C21: in a handler that writes both the donation row and claim rows, the
\* write of the donation is issued first: when a request issues its write of
\* claim rows, it is not left with the write of the donation still to issue.
C21_DonationWrittenFirst ==
    [][\A r \in BagToSet(reqs) :
          ClaimRowWrite(r) => [r EXCEPT !.pc = "donation"] \notin BagToSet(reqs')]_vars

\* C22: when a call of a handler raises after an earlier write of the same
\* handler has succeeded, the rows stay consistent: no donation has status
\* available while a claim row of it is claimed, and no donation has more
\* than one claimed claim row.
C22_FailureLeavesRowsConsistent ==
    \A d \in DonationIds :
       /\ donations[d].status = "available" => ClaimedRows(claims, d) = {}
       /\ Cardinality(ClaimedRows(claims, d)) <= 1

\* the calls of the Notifier step: the in-app notification and the e-mail
NotifierCalls == {"notifications.insert", "mail.send"}

\* C23: when a call of the Notifier step raises in add_donation,
\* cancel_donation, confirm_pickup or ngo_cancel_claim, the handler still
\* returns its success answer and the rows are written as by a run in which
\* nothing raises.
C23_NotifierFailureSwallowed ==
    [][\A call \in NotifierCalls :
          /\ \A q \in Quantities, e \in ExpiryInputs :
                add_donation_raises(q, e, call) =>
                   /\ resp'.code = 201
                   /\ donations' = add_insert(donations, q, e)
          /\ \A d \in DonationIds :
                cancel_donation_raises(d, call) =>
                   /\ resp'.code = 200
                   /\ claims' = cancel_claims_write(claims, d)
                   /\ donations' = cancel_donation_write(donations, d)
          /\ \A d \in DonationIds :
                confirm_pickup_raises(d, call) =>
                   /\ resp'.code = 200
                   /\ donations' = pickup_donation_write(donations, d)
                   /\ claims' = pickup_claims_write(claims, d)
          /\ \A d \in DonationIds, n \in NGOs :
                ngo_cancel_claim_raises(d, n, call) =>
                   /\ resp'.code = 200
                   /\ claims' = claim_cancel_write(claims, ngo_claim_rows(claims, d, n)[1])
                   /\ donations' = ngo_donation_write(donations, d)]_vars

\* C24: when a call raises while a sweep handles one candidate row, the
\* candidates after that row are still handled by the same run: the
\* auto-expire sweep stamps them expired, and the stale-claim sweep cancels
\* them unless their donation is completed.
C24_SweepRowFailureIsolated ==
    [][/\ \A i \in 1..MaxDonations, call \in CallsOf(expire_calls) :
             auto_expire_donations_raises(i, call) =>
                LET to_expire == expire_candidates(donations, today) IN
                \A j \in (i + 1)..Len(to_expire) :
                   donations'[to_expire[j]].final_state = "expired"
       /\ \A i \in 1..MaxClaims, call \in CallsOf(stale_calls) :
             auto_cancel_claimed_donations_raises(i, call) =>
                LET todo == stale_candidates(claims, now) IN
                \A j \in (i + 1)..Len(todo) :
                   \/ stale_skip(donations[claims[todo[j]].donation_id])
                   \/ claims'[todo[j]].status = "cancelled"]_vars

\* C25: the stale-claim sweep leaves the donation of a claim it cancels in
\* (available, null); and claim_donation on a donation in (available, null)
\* that has a cancelled claim row and an expiry_date of today or later
\* answers 200, appends a claim row with status claimed for the requesting
\* NGO, leaves the cancelled row as it is and sets the donation to claimed.
C25_ReclaimAfterStaleSweep ==
    [][/\ resp'.op = "auto_cancel_claimed_donations" =>
             \A c \in ClaimIds :
                claims[c].status = "claimed" /\ claims'[c].status = "cancelled" =>
                   /\ donations'[claims[c].donation_id].status = "available"
                   /\ donations'[claims[c].donation_id].final_state = NULL
       /\ resp'.op = "claim_donation" =>
             LET d == resp'.id IN
             (/\ donations[d].status = "available"
              /\ donations[d].final_state = NULL
              /\ donations[d].expiry_date >= today
              /\ \E c \in ClaimIds : /\ claims[c].donation_id = d
                                     /\ claims[c].status = "cancelled")
             => /\ resp'.code = 200
                /\ Len(claims') = Len(claims) + 1
                /\ SubSeq(claims', 1, Len(claims)) = claims
                /\ claims'[Len(claims')].donation_id = d
                /\ claims'[Len(claims')].ngo_id = resp'.ngo
                /\ claims'[Len(claims')].status = "claimed"
                /\ donations'[d].status = "claimed"]_vars

\* a donation whose first claim the sweep cancelled is claimed again
C25_Witness ==
    /\ resp.op = "claim_donation"
    /\ resp.code = 200
    /\ Len(claims) = 2
    /\ claims[1].status = "cancelled"
    /\ claims[2].status = "claimed"
    /\ claims[2].donation_id = claims[1].donation_id
    /\ donations[claims[1].donation_id].status = "claimed"
    /\ donations[claims[1].donation_id].final_state = NULL

\* C26: _execute_with_retry executes the query at most Retries + 1 times: an
\* execution that gives a result ends the call with that result (200); one
\* that raises a transient transport error is followed by another execution
\* while fewer than Retries retries have been made, and otherwise ends the
\* call with that error (list_donations answers 503); one that raises any
\* other error ends the call at once (500).  A lifecycle handler whose
\* inserting or updating call raises answers 500 in the same step: the call
\* is not executed a second time.
C26_RetryBounded ==
    [][/\ \A r \in InFlight("list_donations", "execute"), o \in Outcomes :
             rq_list_execute(r, o) =>
                /\ r.attempt + 1 <= Retries + 1
                /\ IF o = "ok"
                   THEN resp'.code = 200 /\ reqs' = Finish(r)
                   ELSE IF o = "APIError"
                   THEN resp'.code = 500 /\ reqs' = Finish(r)
                   ELSE IF r.attempt < Retries
                   THEN /\ reqs' = Move(r, [r EXCEPT !.attempt = r.attempt + 1])
                        /\ UNCHANGED resp
                   ELSE resp'.code = 503 /\ reqs' = Finish(r)
       /\ \A r \in BagToSet(reqs') : r.op = "list_donations" => r.attempt <= Retries
       /\ \A q \in Quantities, e \in ExpiryInputs :
             add_donation_raises(q, e, "food_donations.insert") =>
                resp'.code = 500 /\ UNCHANGED donations
       /\ \A d \in DonationIds, n \in NGOs :
             claim_donation_raises(d, n, "food_donations.update") =>
                resp'.code = 500 /\ Len(claims') = Len(claims) + 1]_vars

\* the transient error was raised again when the retries were used up
C26_Witness ==
    /\ resp.op = "list_donations"
    /\ resp.code = 503

\* C27: a handler that applies a lifecycle transition inserts a notification:
\* one for a donation created, cancelled by the donor, claimed, released by
\* its NGO or picked up, and in a sweep one for every donation it stamps
\* expired and one for every claim it cancels.
C27_NotificationPerTransition ==
    [][/\ ( /\ resp'.op \in {"add_donation", "cancel_donation", "claim_donation",
                             "ngo_cancel_claim"}
            /\ resp'.code \in {200, 201} ) => resp'.notes = 1
       /\ (resp'.op = "confirm_pickup" /\ resp'.text = Confirmed) => resp'.notes = 1
       /\ resp'.op = "auto_expire_donations" =>
             resp'.notes = Cardinality({d \in DonationIds :
                                          donations'[d].final_state # donations[d].final_state})
       /\ resp'.op = "auto_cancel_claimed_donations" =>
             resp'.notes = Cardinality({c \in ClaimIds :
                                          claims'[c].status # claims[c].status})]_vars

\* C28: with handlers that run to completion and calls that do not raise, in
\* every reachable state a donation has status claimed exactly if one of its
\* claim rows, and only one, has status claimed; and a donation with status
\* completed has exactly one claim row with status completed.
C28_StatusMatchesClaimRows ==
    \A d \in DonationIds :
       /\ donations[d].status = "claimed"
             <=> Cardinality(ClaimedRows(claims, d)) = 1
       /\ donations[d].status = "completed"
             => Cardinality(CompletedRows(claims, d)) = 1

\* a donation that was claimed twice and then picked up: one row cancelled,
\* one completed
C28_Witness ==
    \E d \in DonationIds :
       /\ donations[d].status = "completed"
       /\ Cardinality(CompletedRows(claims, d)) = 1
       /\ \E c \in ClaimIds : claims[c].donation_id = d /\ claims[c].status = "cancelled"

\* ngo_dashboard: the status of the claim row of the NGO that the handler
\* keeps for the donation (the last one of the rows it fetched), if any
ngo_claims_get(cls, d, n) ==
    LET rows == RowsWhere(cls, LAMBDA r : r.donation_id = d /\ r.ngo_id = n) IN
    IF rows = <<>> THEN NULL ELSE cls[rows[Len(rows)]].status

\* ngo_dashboard: the donation is put in the available list
dashboard_available(don, claim, tday) ==
    IF claim \in {"claimed", "completed"} THEN FALSE
    ELSE IF don.status # "available" THEN FALSE
    ELSE IF don.final_state = "cancelled_by_donor" THEN FALSE
    ELSE IF don.final_state = "cancelled_by_ngo" THEN TRUE
    ELSE IF don.final_state = "expired" THEN don.expiry_date >= tday
    ELSE don.final_state = NULL

\* C29: in every reachable state, a donation that ngo_dashboard puts in the
\* available list of an NGO passes the guards of claim_donation: a claim
\* request for it is answered 200 and not 409.
C29_DashboardAvailableIsClaimable ==
    \A d \in DonationIds, n \in NGOs :
       dashboard_available(donations[d], ngo_claims_get(claims, d, n), today)
          => claim_guard(donations[d], today) = 200

\* C30: when delete_user_admin deletes an NGO that holds a claimed claim row,
\* the step leaves the donation of that row neither with status claimed nor
\* with a claimed claim row; and whenever a donation is completed, one of its
\* claim rows is completed.
C30_DeletedNgoLeavesNoClaim ==
    [][/\ (resp'.op = "delete_user_admin" /\ resp'.code = 200) =>
             \A d \in DonationIds :
                (\E c \in ClaimedRows(claims, d) : claims[c].ngo_id = resp'.ngo) =>
                   /\ donations'[d].status # "claimed"
                   /\ ClaimedRows(claims', d) = {}
       /\ \A d \in 1..Len(donations') :
             donations'[d].status = "completed" => CompletedRows(claims', d) # {}]_vars
====
